---- MODULE Spec2Model ----
(***************************************************************************)
(* Revenue aggregation of the property dashboard.                          *)
(*                                                                         *)
(*   backend/app/api/v1/dashboard.py      get_dashboard_summary            *)
(*   backend/app/services/reservations.py calculate_total_revenue,         *)
(*                                        calculate_monthly_revenue        *)
(*   app/services/cache.py                get_revenue_summary (the source  *)
(*                                        is absent; modelled from the     *)
(*                                        specification, sections 3-5)    *)
(*                                                                         *)
(* Decimal values are exact fixed-point numbers counted in thousandths     *)
(* (2250.005 is 2250005); a value rounded to two fractional digits is      *)
(* counted in hundredths (2250.01 is 225001).  A nullable SQL value is a   *)
(* sequence of length 0 (NULL) or 1.                                       *)
(***************************************************************************)
EXTENDS Integers, Sequences, FiniteSets, TLC

VARIABLES
    store,          \* the reservations table: a sequence of rows
    pc,             \* position of each request
    prop,           \* property_id argument of each request
    user,           \* current_user of each request (authenticated context)
    tenant,         \* tenant_id local of get_dashboard_summary
    cache,          \* revenue cache: key -> absent / in flight / aggregate
    waits_on,       \* the request whose computation a joined request awaits
    issued,         \* whether the request's call reached session.execute
    dropped,        \* history: the key's entry has expired or was invalidated
    coldOverlap,    \* history: two requests for the key were in flight at
                    \* one time while no aggregate for it was cached
    outcome,        \* what the store answered to the request's query
    path,           \* return statement calculate_total_revenue left through
    cause,          \* the exception caught at the except clause, if any
    revenue_data,   \* revenue_data local of get_dashboard_summary
    response,       \* the value get_dashboard_summary returned
    a_in,           \* arguments of a direct call of calculate_total_revenue
    a_out,          \* what that call returned
    a_resp,         \* the response formatted from it
    m_in,           \* arguments of calculate_monthly_revenue + the probed reservation
    m_out           \* outcome of calculate_monthly_revenue

vars == <<store, pc, prop, user, tenant, cache, waits_on, issued, dropped,
          coldOverlap, outcome, path, cause, revenue_data, response,
          a_in, a_out, a_resp, m_in, m_out>>

pipeVars == <<store, pc, prop, user, tenant, cache, waits_on, issued, dropped,
              coldOverlap, outcome, path, cause, revenue_data, response>>

aggVars == <<a_in, a_out, a_resp>>

monthVars == <<m_in, m_out>>

----------------------------------------------------------------------------
(* Bounds and input sets *)

MaxRows == 2

NumRequests == 2

Requests == 1..NumRequests

Properties == {"prop-001", "prop-009"}

Tenants == {"t1", "t2"}

NULL == <<>>

\* total_amount values of the stored rows: NULL, 1.005, 1.004 and 0.10
Amounts == {NULL, <<1005>>, <<1004>>, <<100>>}

Rows == [property_id : Properties, tenant_id : Tenants, total_amount : Amounts]

RECURSIVE SeqsUpTo(_, _)
SeqsUpTo(S, n) ==
    IF n = 0 THEN {<<>>}
    ELSE LET shorter == SeqsUpTo(S, n - 1)
         IN  shorter \cup {Append(s, x) : s \in {t \in shorter : Len(t) = n - 1}, x \in S}

Stores == SeqsUpTo(Rows, MaxRows)

\* Tables the concurrent requests run against: the empty one, and one
\* property shared by two tenants
PipeStores ==
    {<<>>,
     <<[property_id |-> "prop-001", tenant_id |-> "t1", total_amount |-> <<1005>>],
       [property_id |-> "prop-001", tenant_id |-> "t2", total_amount |-> <<1004>>]>>}

\* Authenticated contexts handed to get_dashboard_summary.  `shape` is what
\* the dependency returned: an object with attributes, or a dict (the
\* declared type of the parameter).  `tenant_id` is NULL when the context
\* has none, <<"">> when it is empty.
Users ==
    [shape : {"object"}, tenant_id : {NULL, <<"">>, <<"t1">>, <<"t2">>}]
        \cup [shape : {"dict"}, tenant_id : {<<"t1">>}]

NoUser == [shape |-> "none", tenant_id |-> NULL]

TenantIds == Tenants \cup {"default_tenant"}

Keys == Properties \X TenantIds

----------------------------------------------------------------------------
(* dashboard.py: tenant resolution and the summary formatter *)

\* getattr(current_user, "tenant_id", "default_tenant"): attribute lookup.
\* A dict keeps tenant_id as a key, not as an attribute, so the default is
\* returned for it.
GetAttrTenant(u) ==
    IF u.shape = "object" /\ u.tenant_id # NULL THEN u.tenant_id[1]
    ELSE "default_tenant"

\* getattr(...) or "default_tenant": an empty string is falsy
ResolveTenant(u) ==
    LET got == GetAttrTenant(u)
    IN  IF got = "" THEN "default_tenant" ELSE got

Abs(n) == IF n < 0 THEN -n ELSE n

QuantizeTruncate(mills) ==
    (IF mills < 0 THEN -1 ELSE 1) * (Abs(mills) \div 10)

\* Decimal(total).quantize(Decimal('0.01'), rounding=ROUND_HALF_UP):
\* thousandths to hundredths, ties away from zero
Quantize(mills) ==
    (IF mills < 0 THEN -1 ELSE 1) * ((Abs(mills) + 5) \div 10)

\* float(total_revenue): a value with two fractional digits and at most 15
\* significant digits maps to the double nearest to it, and distinct such
\* values map to distinct doubles that print back with the same digits; the
\* double is named by the value it is nearest to, in hundredths.
ToFloat(cents) == cents

FormatSummary(data) ==
    [property_id        |-> data.property_id,
     total_revenue      |-> ToFloat(Quantize(data.total)),
     currency           |-> data.currency,
     reservations_count |-> data.count]

----------------------------------------------------------------------------
(* reservations.py: calculate_total_revenue *)

WhereClausePropertyOnly(row, property_id, tenant_id) ==
    row.property_id = property_id

\* WHERE property_id = :property_id AND tenant_id = :tenant_id
WhereClause(row, property_id, tenant_id) ==
    row.property_id = property_id /\ row.tenant_id = tenant_id

RECURSIVE SelectRows(_, _, _)
SelectRows(table, property_id, tenant_id) ==
    IF table = <<>> THEN <<>>
    ELSE LET rest == SelectRows(Tail(table), property_id, tenant_id)
         IN  IF WhereClause(Head(table), property_id, tenant_id)
             THEN <<Head(table)>> \o rest
             ELSE rest

\* SUM(total_amount): NULL inputs are skipped; NULL when no input is non-NULL
RECURSIVE SqlSum(_)
SqlSum(rows) ==
    IF rows = <<>> THEN NULL
    ELSE LET h == Head(rows).total_amount
             t == SqlSum(Tail(rows))
         IN  IF h = NULL THEN t
             ELSE IF t = NULL THEN h
             ELSE <<h[1] + t[1]>>

\* The query with GROUP BY property_id, then result.fetchone(): no group,
\* hence no row, when nothing matches
FetchOne(table, property_id, tenant_id) ==
    LET rows == SelectRows(table, property_id, tenant_id)
    IN  IF rows = <<>> THEN <<>>
        ELSE <<[property_id       |-> property_id,
                total_revenue     |-> SqlSum(rows),
                reservation_count |-> Len(rows)]>>

mock_data ==
    [p \in {"prop-001", "prop-002", "prop-003", "prop-004", "prop-005"} |->
        CASE p = "prop-001" -> [total |-> 2250000, count |-> 4]
          [] p = "prop-002" -> [total |-> 4975500, count |-> 4]
          [] p = "prop-003" -> [total |-> 6100500, count |-> 2]
          [] p = "prop-004" -> [total |-> 1776500, count |-> 4]
          [] p = "prop-005" -> [total |-> 3256000, count |-> 3]]

\* mock_data.get(property_id, {'total': '0.00', 'count': 0})
MockGet(property_id) ==
    IF property_id \in DOMAIN mock_data THEN mock_data[property_id]
    ELSE [total |-> 0, count |-> 0]

Aggregate(property_id, tenant_id, total, count) ==
    [property_id |-> property_id, tenant_id |-> tenant_id, total |-> total,
     currency |-> "USD", count |-> count]

\* except Exception as e: every exception lands here
ExceptBranch(property_id, tenant_id, exc) ==
    [path  |-> "except",
     cause |-> exc,
     value |-> Aggregate(property_id, tenant_id,
                         MockGet(property_id).total, MockGet(property_id).count)]

\* The body of calculate_total_revenue given what the store did.
\* answer = "ok": the query returned; otherwise the exception the pool or
\* the session raised.
CalculateTotalRevenue(table, property_id, tenant_id, answer) ==
    IF answer # "ok" THEN ExceptBranch(property_id, tenant_id, answer)
    ELSE LET row == FetchOne(table, property_id, tenant_id)
         IN  IF row # <<>>
             THEN IF row[1].total_revenue = NULL
                  \* Decimal(str(None)) raises decimal.InvalidOperation
                  THEN ExceptBranch(property_id, tenant_id, "InvalidOperation")
                  ELSE [path  |-> "row",
                        cause |-> "none",
                        value |-> Aggregate(property_id, tenant_id,
                                            row[1].total_revenue[1],
                                            row[1].reservation_count)]
             ELSE [path  |-> "norow",
                   cause |-> "none",
                   value |-> Aggregate(property_id, tenant_id, 0, 0)]

StoreAnswers == {"ok", "StoreUnavailable", "StoreTimeout"}

----------------------------------------------------------------------------
(* reservations.py: calculate_monthly_revenue *)

MINYEAR == 1

MAXYEAR == 9999

\* datetime(year, month, day, tzinfo=timezone.utc) at 00:00; <<>> stands
\* for the ValueError the constructor raises on a year or month out of range
DateTime(year, month, day) ==
    IF year < MINYEAR \/ year > MAXYEAR \/ month < 1 \/ month > 12
    THEN <<>>
    ELSE <<[year |-> year, month |-> month, day |-> day, minute |-> 0]>>

EndDateNoRollover(year, month) ==
    DateTime(year, month + 1, 1)

\* if month < 12: datetime(year, month + 1, 1) else: datetime(year + 1, 1, 1)
EndDate(year, month) ==
    IF month < 12 THEN DateTime(year, month + 1, 1)
    ELSE DateTime(year + 1, 1, 1)

\* The body of calculate_monthly_revenue: the interval it computes and the
\* value it returns.  The query text is built but never executed; the
\* function returns the placeholder Decimal('0').
MonthlyRevenue(year, month) ==
    LET start_date == DateTime(year, month, 1)
    IN  IF start_date = <<>>
        THEN [status |-> "ValueError", start |-> <<>>, end |-> <<>>,
              queried |-> FALSE, ret |-> <<>>]
        ELSE LET end_date == EndDate(year, month)
             IN  IF end_date = <<>>
                 THEN [status |-> "ValueError", start |-> <<>>, end |-> <<>>,
                       queried |-> FALSE, ret |-> <<>>]
                 ELSE [status |-> "ok", start |-> start_date, end |-> end_date,
                       queried |-> FALSE, ret |-> <<0>>]

----------------------------------------------------------------------------
(* Calendar arithmetic used to place a reservation on the UTC time line *)

IsLeap(y) == (y % 4 = 0 /\ y % 100 # 0) \/ y % 400 = 0

DaysInMonth(y, m) ==
    IF m = 2 THEN (IF IsLeap(y) THEN 29 ELSE 28)
    ELSE IF m \in {4, 6, 9, 11} THEN 30 ELSE 31

DtKey(d) == <<d.year, d.month, d.day, d.minute>>

DtLess(a, b) ==
    \E i \in 1..4 :
        /\ DtKey(a)[i] < DtKey(b)[i]
        /\ \A j \in 1..(i - 1) : DtKey(a)[j] = DtKey(b)[j]

DtLeq(a, b) == DtKey(a) = DtKey(b) \/ DtLess(a, b)

\* d plus k minutes, 0 <= k < one day
AddMinutes(d, k) ==
    LET mm   == d.minute + k
        over == mm >= 1440
        dd   == IF over THEN d.day + 1 ELSE d.day
        mOv  == dd > DaysInMonth(d.year, d.month)
        mo   == IF mOv THEN d.month + 1 ELSE d.month
        yOv  == mo > 12
    IN  [year   |-> IF yOv THEN d.year + 1 ELSE d.year,
         month  |-> IF yOv THEN 1 ELSE mo,
         day    |-> IF mOv THEN 1 ELSE dd,
         minute |-> IF over THEN mm - 1440 ELSE mm]

\* 23:59 local time on the last day of the month
LastMinuteLocal(year, month) ==
    [year |-> year, month |-> month, day |-> DaysInMonth(year, month), minute |-> 1439]

\* The UTC instant of a local time in a zone `west` minutes behind UTC
LocalToUTC(d, west) == AddMinutes(d, west)

\* d minus k minutes, 0 <= k < one day
SubMinutes(d, k) ==
    LET under == d.minute < k
        dUn   == under /\ d.day = 1
        yUn   == dUn /\ d.month = 1
        yy    == IF yUn THEN d.year - 1 ELSE d.year
        mo    == IF yUn THEN 12 ELSE IF dUn THEN d.month - 1 ELSE d.month
    IN  [year   |-> yy,
         month  |-> mo,
         day    |-> IF dUn THEN DaysInMonth(yy, mo)
                    ELSE IF under THEN d.day - 1 ELSE d.day,
         minute |-> IF under THEN d.minute + 1440 - k ELSE d.minute - k]

\* The schema is not part of the sources: check_in_date is either a
\* timestamptz or a timestamp holding the UTC wall time.
ColumnTypes == {"timestamptz", "timestamp"}

\* (r.check_in_date AT TIME ZONE p.timezone) for a check-in at the UTC time
\* check_in, in a zone `west` minutes behind UTC.  On a timestamptz the
\* operator yields the wall time of the zone; on a timestamp it reads the
\* value as wall time of the zone and yields the instant.
AtTimeZone(check_in, column, west) ==
    IF column = "timestamptz" THEN SubMinutes(check_in, west)
    ELSE AddMinutes(check_in, west)

\* The time predicate of the query text,
\*   (r.check_in_date AT TIME ZONE p.timezone) >= $3 AND ... < $4,
\* with $3 = start_date and $4 = end_date compared field by field (session
\* time zone UTC).  calculate_monthly_revenue builds this text and never
\* executes it.
InBucket(check_in, column, west, start, end) ==
    LET shifted == AtTimeZone(check_in, column, west)
    IN  DtLeq(start, shifted) /\ DtLess(shifted, end)

\* Membership of an instant in a half-open interval of instants
Contains(start, end, t) == DtLeq(start, t) /\ DtLess(t, end)

----------------------------------------------------------------------------
(* The revenue cache (get_revenue_summary); its source is not available,   *)
(* the behaviour is the one sections 3, 4.5 and 5 describe.  A request is  *)
(* suspended while it waits for the cache lookup ("lookup"), for the pool  *)
(* ("init"), for the entry of its session ("enter"), for the store         *)
(* ("query"), for the exit of its session ("exit") or for a computation in *)
(* flight ("joined"); the code between two suspension points runs as one   *)
(* step.                                                                   *)

\* lifetime, in ticks of the clock, of a live aggregate; a fallback
\* aggregate lives for one tick
MaxTTL == 2

\* the ttl put is called with: short for the aggregate of the fallback
\* branch, longer for one computed from the store
TTLOf(res) == IF res.path = "except" THEN 1 ELSE MaxTTL

Absent == [state |-> "absent", value |-> <<>>, by |-> 0, ttl |-> 0]

\* the in-progress computation handle of request r
InFlight(r) == [state |-> "inflight", value |-> <<>>, by |-> r, ttl |-> 0]

Cached(agg, ttl) == [state |-> "done", value |-> <<agg>>, by |-> 0, ttl |-> ttl]

KeyOf(r) == <<prop[r], tenant[r]>>

\* Two requests for key k in flight while no aggregate for k is cached
ColdPair(pcs, props, tenants, entries, k) ==
    /\ entries[k].state # "done"
    /\ \E r1, r2 \in Requests :
        /\ r1 # r2
        /\ pcs[r1] \notin {"idle", "done"}
        /\ pcs[r2] \notin {"idle", "done"}
        /\ <<props[r1], tenants[r1]>> = k
        /\ <<props[r2], tenants[r2]>> = k

\* the history of cold overlaps, recorded with every step
Record ==
    coldOverlap' = [k \in Keys |->
                      coldOverlap[k] \/ ColdPair(pc', prop', tenant', cache', k)]

\* get_dashboard_summary after the await: rounding and the response
Respond(r, data) ==
    /\ revenue_data' = [revenue_data EXCEPT ![r] = <<data>>]
    /\ response' = [response EXCEPT ![r] = <<FormatSummary(data)>>]
    /\ pc' = [pc EXCEPT ![r] = "done"]

\* get: a completed aggregate is returned without a query
CacheHit(r) ==
    /\ pc[r] = "lookup"
    /\ cache[KeyOf(r)].state = "done"
    /\ Respond(r, cache[KeyOf(r)].value[1])
    /\ UNCHANGED <<cache, waits_on>>

\* a miss for a key that is being computed joins the computation: the
\* request awaits the handle found in the map
CacheJoin(r) ==
    /\ pc[r] = "lookup"
    /\ cache[KeyOf(r)].state = "inflight"
    /\ waits_on' = [waits_on EXCEPT ![r] = cache[KeyOf(r)].by]
    /\ pc' = [pc EXCEPT ![r] = "joined"]
    /\ UNCHANGED <<cache, revenue_data, response>>

\* a cold miss puts its handle into the map and calls
\* calculate_total_revenue, which runs up to its first suspension, the
\* await of db_pool.initialize().  Looking the key up and entering the
\* handle are one step: the map's bookkeeping is done under its lock
\* (section 5), with no suspension in between.
CacheMiss(r) ==
    /\ pc[r] = "lookup"
    /\ cache[KeyOf(r)].state = "absent"
    /\ cache' = [cache EXCEPT ![KeyOf(r)] = InFlight(r)]
    /\ pc' = [pc EXCEPT ![r] = "init"]
    /\ UNCHANGED <<waits_on, revenue_data, response>>

CacheMissNoRegistration(r) ==
    /\ pc[r] = "lookup"
    /\ cache[KeyOf(r)].state # "done"
    /\ pc' = [pc EXCEPT ![r] = "init"]
    /\ UNCHANGED <<cache, waits_on, revenue_data, response>>

CacheLookupNoSingleFlight(r) ==
    /\ (CacheHit(r) \/ CacheMissNoRegistration(r))
    /\ UNCHANGED <<store, prop, user, tenant, issued, dropped, outcome, path,
                   cause, aggVars, monthVars>>
    /\ Record

CacheLookup(r) ==
    /\ (CacheHit(r) \/ CacheJoin(r) \/ CacheMiss(r))
    /\ UNCHANGED <<store, prop, user, tenant, issued, dropped, outcome, path,
                   cause, aggVars, monthVars>>
    /\ Record

\* put(key, aggregate, ttl): the computed aggregate replaces the in-flight
\* entry and lives for ttl ticks of the clock
CachePut(r, agg, ttl) ==
    cache' = [cache EXCEPT ![KeyOf(r)] = Cached(agg, ttl)]

\* a joined request resumes with the aggregate that the computation it
\* awaits has produced, whatever has happened to the cache entry since
JoinComplete(r) ==
    /\ pc[r] = "joined"
    /\ pc[waits_on[r]] = "done"
    /\ Respond(r, revenue_data[waits_on[r]][1])
    /\ UNCHANGED <<store, prop, user, tenant, cache, waits_on, issued, dropped,
                   outcome, path, cause, aggVars, monthVars>>
    /\ Record

\* invalidate(property_id, tenant_id): the key's aggregate is discarded.
\* A computation in flight stays in the map, so that the key is never
\* computed twice at one time.
CacheInvalidate(k) ==
    /\ cache[k].state = "done"
    /\ cache' = [cache EXCEPT ![k] = Absent]
    /\ dropped' = [dropped EXCEPT ![k] = TRUE]
    /\ UNCHANGED <<store, pc, prop, user, tenant, waits_on, issued, outcome,
                   path, cause, revenue_data, response, aggVars, monthVars>>
    /\ Record

\* the clock ticks: every aggregate is one tick closer to its expiry, and
\* an aggregate whose ttl has run out is discarded
Tick ==
    /\ \E k \in Keys : cache[k].state = "done"
    /\ cache' = [k \in Keys |->
                    IF cache[k].state # "done" THEN cache[k]
                    ELSE IF cache[k].ttl > 1
                         THEN [cache[k] EXCEPT !.ttl = @ - 1]
                         ELSE Absent]
    /\ dropped' = [k \in Keys |->
                    dropped[k] \/ (cache[k].state = "done" /\ cache[k].ttl <= 1)]
    /\ UNCHANGED <<store, pc, prop, user, tenant, waits_on, issued, outcome,
                   path, cause, revenue_data, response, aggVars, monthVars>>
    /\ Record

----------------------------------------------------------------------------
(* Request steps *)

\* get_dashboard_summary up to the await of get_revenue_summary.  Requests
\* are numbered in the order they arrive.
Arrive(r, property_id, current_user) ==
    /\ pc[r] = "idle"
    /\ \A q \in Requests : q < r => pc[q] # "idle"
    /\ prop' = [prop EXCEPT ![r] = property_id]
    /\ user' = [user EXCEPT ![r] = current_user]
    /\ tenant' = [tenant EXCEPT ![r] = ResolveTenant(current_user)]
    /\ pc' = [pc EXCEPT ![r] = "lookup"]
    /\ UNCHANGED <<store, cache, waits_on, issued, dropped, outcome, path,
                   cause, revenue_data, response, aggVars, monthVars>>
    /\ Record

\* The value calculate_total_revenue returns is delivered: the aggregate
\* goes into the cache and back to get_dashboard_summary, which formats
\* the response.  An exception raised on the way is caught by the except
\* clause at this point.
Return(r, answer) ==
    LET res == CalculateTotalRevenue(store, prop[r], tenant[r], answer)
    IN  /\ path' = [path EXCEPT ![r] = res.path]
        /\ cause' = [cause EXCEPT ![r] = res.cause]
        /\ CachePut(r, res.value, TTLOf(res))
        /\ Respond(r, res.value)

\* calculate_total_revenue resumes from the await of db_pool.initialize().
\* With a session factory it enters `async with db_pool.get_session()` and
\* is suspended in the entry.  Without one it raises "Database pool not
\* available" and leaves through the except clause; no query is issued.
PoolInitialized(r, available) ==
    /\ pc[r] = "init"
    /\ IF available
       THEN /\ pc' = [pc EXCEPT ![r] = "enter"]
            /\ UNCHANGED <<cache, outcome, path, cause, revenue_data, response>>
       ELSE /\ Return(r, "StoreUnavailable")
            /\ outcome' = [outcome EXCEPT ![r] = "StoreUnavailable"]
    /\ UNCHANGED <<store, prop, user, tenant, waits_on, issued, dropped,
                   aggVars, monthVars>>
    /\ Record

\* the session is entered: calculate_total_revenue builds the query and
\* awaits session.execute; the store query is issued
SessionEntered(r) ==
    /\ pc[r] = "enter"
    /\ issued' = [issued EXCEPT ![r] = TRUE]
    /\ pc' = [pc EXCEPT ![r] = "query"]
    /\ UNCHANGED <<store, prop, user, tenant, cache, waits_on, dropped, outcome,
                   path, cause, revenue_data, response, aggVars, monthVars>>
    /\ Record

\* calculate_total_revenue resumes when the store answers its query, with
\* rows or with an exception.  It runs to a return statement of the
\* `async with` block, or an exception leaves the block; either way it is
\* suspended in the exit of the session.
StoreAnswer(r, answer) ==
    /\ pc[r] = "query"
    /\ outcome' = [outcome EXCEPT ![r] = answer]
    /\ LET res == CalculateTotalRevenue(store, prop[r], tenant[r], answer)
       IN  path' = [path EXCEPT ![r] = IF res.path = "except" THEN @ ELSE res.path]
    /\ pc' = [pc EXCEPT ![r] = "exit"]
    /\ UNCHANGED <<store, prop, user, tenant, cache, waits_on, issued, dropped,
                   cause, revenue_data, response, aggVars, monthVars>>
    /\ Record

\* the session is left: the value of the return statement is delivered,
\* or the exception reaches the except clause and the fallback is returned
SessionExited(r) ==
    /\ pc[r] = "exit"
    /\ Return(r, outcome[r])
    /\ UNCHANGED <<store, prop, user, tenant, waits_on, issued, dropped,
                   outcome, aggVars, monthVars>>
    /\ Record

NoMonthCall == [status |-> "none", start |-> <<>>, end |-> <<>>,
                queried |-> FALSE, ret |-> <<>>]

NoCall == [stage |-> "none", answer |-> "none", path |-> "none",
           cause |-> "none", value |-> <<>>]

AggIdle ==
    /\ a_in = [property_id |-> "prop-001", tenant_id |-> "default_tenant"]
    /\ a_out = NoCall
    /\ a_resp = <<>>

PipeInit(tables) ==
    /\ store \in tables
    /\ pc = [r \in Requests |-> "idle"]
    /\ prop = [r \in Requests |-> "prop-001"]
    /\ user = [r \in Requests |-> NoUser]
    /\ tenant = [r \in Requests |-> "default_tenant"]
    /\ cache = [k \in Keys |-> Absent]
    /\ waits_on = [r \in Requests |-> 0]
    /\ issued = [r \in Requests |-> FALSE]
    /\ dropped = [k \in Keys |-> FALSE]
    /\ coldOverlap = [k \in Keys |-> FALSE]
    /\ outcome = [r \in Requests |-> "none"]
    /\ path = [r \in Requests |-> "none"]
    /\ cause = [r \in Requests |-> "none"]
    /\ revenue_data = [r \in Requests |-> <<>>]
    /\ response = [r \in Requests |-> <<>>]

Init ==
    /\ PipeInit(PipeStores)
    /\ AggIdle
    /\ m_in = [year |-> 2024, month |-> 1, west |-> 300]
    /\ m_out = NoMonthCall

Next ==
    \/ \E r \in Requests, p \in Properties, u \in Users : Arrive(r, p, u)
    \/ \E r \in Requests : CacheLookup(r)
    \/ \E r \in Requests, up \in BOOLEAN : PoolInitialized(r, up)
    \/ \E r \in Requests : SessionEntered(r)
    \/ \E r \in Requests, a \in StoreAnswers : StoreAnswer(r, a)
    \/ \E r \in Requests : SessionExited(r)
    \/ \E r \in Requests : JoinComplete(r)
    \/ \E k \in Keys : CacheInvalidate(k)
    \/ Tick

Spec == Init /\ [][Next]_vars

\* The steps that are taken once they can be: those the server's event
\* loop runs by itself, and the exit of a session whose query has been
\* answered.  The arrival of a request, the pool handing out a session,
\* the answer of the store, an invalidation and the passing of time are
\* not within the program's power.
ProgramStep ==
    \E r \in Requests : CacheLookup(r) \/ JoinComplete(r) \/ SessionExited(r)

FairSpec == Spec /\ WF_vars(ProgramStep)

\* The same program serving the requests of two tenants' users for the
\* properties: requests meet on a key, or pass each other on two keys.
TenantUsers == [shape : {"object"}, tenant_id : {<<"t1">>, <<"t2">>}]

CacheNext ==
    \/ \E r \in Requests, p \in Properties, u \in TenantUsers : Arrive(r, p, u)
    \/ \E r \in Requests : CacheLookup(r)
    \/ \E r \in Requests, up \in BOOLEAN : PoolInitialized(r, up)
    \/ \E r \in Requests : SessionEntered(r)
    \/ \E r \in Requests, a \in StoreAnswers : StoreAnswer(r, a)
    \/ \E r \in Requests : SessionExited(r)
    \/ \E r \in Requests : JoinComplete(r)
    \/ \E k \in Keys : CacheInvalidate(k)
    \/ Tick

CacheSpec == Init /\ [][CacheNext]_vars

----------------------------------------------------------------------------
(* calculate_total_revenue called directly on every table of at most       *)
(* MaxRows rows, and its result formatted as get_dashboard_summary does    *)

AggInputs == [property_id : Properties, tenant_id : TenantIds]

CallTotalRevenue(answer) ==
    /\ a_out.stage = "none"
    /\ LET res == CalculateTotalRevenue(store, a_in.property_id, a_in.tenant_id, answer)
       IN  a_out' = [stage |-> "returned", answer |-> answer, path |-> res.path,
                     cause |-> res.cause, value |-> <<res.value>>]
    /\ UNCHANGED <<a_in, a_resp, pipeVars, monthVars>>

FormatTotalRevenue ==
    /\ a_out.stage = "returned"
    /\ a_resp = <<>>
    /\ a_resp' = <<FormatSummary(a_out.value[1])>>
    /\ UNCHANGED <<a_in, a_out, pipeVars, monthVars>>

AggInit ==
    /\ PipeInit(Stores)
    /\ a_in \in AggInputs
    /\ a_out = NoCall
    /\ a_resp = <<>>
    /\ m_in = [year |-> 2024, month |-> 1, west |-> 300]
    /\ m_out = NoMonthCall

AggNext ==
    \/ \E a \in StoreAnswers : CallTotalRevenue(a)
    \/ FormatTotalRevenue

AggSpec == AggInit /\ [][AggNext]_vars

----------------------------------------------------------------------------
(* calculate_monthly_revenue as a function of its arguments *)

MaxMonthArg == 13

\* year arguments: the first and the last year datetime accepts, years in
\* between, and the nearest year on either side that it refuses
Years == {MINYEAR - 1, MINYEAR, 2023, 2024, 2100, MAXYEAR - 1, MAXYEAR, MAXYEAR + 1}

\* month arguments: 1..12 and the integers next to them on either side
MonthArgs == (12 - MaxMonthArg)..MaxMonthArg

\* minutes the property's zone is behind UTC (UTC-1, UTC-5, UTC-8)
WestOffsets == {60, 300, 480}

MonthInputs == [year : Years, month : MonthArgs, west : WestOffsets]

CallMonthlyRevenue ==
    /\ m_out.status = "none"
    /\ m_out' = MonthlyRevenue(m_in.year, m_in.month)
    /\ UNCHANGED <<m_in, pipeVars, aggVars>>

MonthInit ==
    /\ PipeInit({<<>>})
    /\ AggIdle
    /\ m_in \in MonthInputs
    /\ m_out = NoMonthCall

MonthNext == CallMonthlyRevenue

MonthSpec == MonthInit /\ [][MonthNext]_vars

----------------------------------------------------------------------------
(* Properties *)

StoreFailed(r) == outcome[r] \in {"StoreUnavailable", "StoreTimeout"}

\* C1: a response produced after a store failure is told apart from every
\* response produced after a successful query (the provenance it carries
\* differs), so the two are never equal field for field.
C1_FallbackDistinguishable ==
    \A r1, r2 \in Requests :
        (pc[r1] = "done" /\ StoreFailed(r1) /\ pc[r2] = "done" /\ outcome[r2] = "ok")
            => response[r1] # response[r2]

\* Indices of the stored reservations of a tenant's property
Matching(property_id, tenant_id) ==
    {i \in DOMAIN store :
        store[i].property_id = property_id /\ store[i].tenant_id = tenant_id}

RECURSIVE ExactSum(_)
ExactSum(idx) ==
    IF idx = {} THEN 0
    ELSE LET i == CHOOSE j \in idx : TRUE
             amount == store[i].total_amount
         IN  (IF amount = NULL THEN 0 ELSE amount[1]) + ExactSum(idx \ {i})

\* C2: whenever the store query succeeds, the total and the count that
\* calculate_total_revenue returns are the sum and the number of the
\* reservations whose property_id and tenant_id both match the request.
C2_TenantScopedAggregate ==
    (a_out.stage = "returned" /\ a_out.answer = "ok")
        => /\ a_out.value[1].total = ExactSum(Matching(a_in.property_id, a_in.tenant_id))
           /\ a_out.value[1].count = Cardinality(Matching(a_in.property_id, a_in.tenant_id))

\* C3: calculate_total_revenue leaves through its fallback branch only when
\* the store call failed with StoreUnavailable or StoreTimeout.
C3_FallbackOnlyOnStoreFailure ==
    a_out.path = "except" => a_out.cause \in {"StoreUnavailable", "StoreTimeout"}

\* The requests that are computing the aggregate of key k
Computing(k) ==
    {r \in Requests : pc[r] \in {"init", "enter", "query", "exit"} /\ KeyOf(r) = k}

\* The number of store queries issued for key k
Queries(k) ==
    Cardinality({r \in Requests : pc[r] # "idle" /\ KeyOf(r) = k /\ issued[r]})

\* Every request that has arrived for key k has its response
Settled(k) ==
    \A r \in Requests : (pc[r] # "idle" /\ KeyOf(r) = k) => pc[r] = "done"

\* Every computation that has returned for key k had found the pool
\* available
PoolAvailable(k) ==
    \A r \in Requests : (KeyOf(r) = k /\ path[r] # "none") => issued[r]

\* C4 as stated: when two requests for one key have been in flight at one
\* time with no aggregate cached for the key, exactly one store query is
\* issued for the key, whatever the interleaving.
C4_ExactlyOneQuery ==
    \A k \in Keys : (coldOverlap[k] /\ Settled(k)) => Queries(k) = 1

\* C4 amended: at no time are two requests computing one key, and a request
\* that misses while the key is being computed joins that computation and
\* issues no query.  When two requests for one key have been in flight at
\* one time with no aggregate cached, at most one store query is issued
\* for the key as long as its entry is neither invalidated nor expired,
\* and exactly one if the pool was available to the computation.
C4_SingleFlight ==
    /\ \A k \in Keys : Cardinality(Computing(k)) <= 1
    /\ \A r \in Requests :
        pc[r] = "joined"
            => /\ ~issued[r]
               /\ waits_on[r] \in Requests \ {r}
               /\ KeyOf(waits_on[r]) = KeyOf(r)
               /\ pc[waits_on[r]] \in {"init", "enter", "query", "exit", "done"}
    /\ \A k \in Keys :
        (coldOverlap[k] /\ ~dropped[k])
            => /\ Queries(k) <= 1
               /\ (Settled(k) /\ PoolAvailable(k)) => Queries(k) = 1

\* C4 witness: two requests for one key were in flight together on a cold
\* cache, the second joined the computation of the first, both have their
\* response and one query was issued.
C4_Witness ==
    \E r1, r2 \in Requests :
        /\ r1 # r2
        /\ KeyOf(r1) = KeyOf(r2)
        /\ coldOverlap[KeyOf(r1)]
        /\ waits_on[r2] = r1
        /\ pc[r1] = "done"
        /\ pc[r2] = "done"
        /\ issued[r1]
        /\ Queries(KeyOf(r1)) = 1

FirstOf(year, month) == [year |-> year, month |-> month, day |-> 1, minute |-> 0]

FirstOfNext(year, month) ==
    IF month = 12 THEN FirstOf(year + 1, 1) ELSE FirstOf(year, month + 1)

\* The UTC instant of the reservation checked in at 23:59 local time on the
\* last day of the month asked for
ProbeCheckIn == LocalToUTC(LastMinuteLocal(m_in.year, m_in.month), m_in.west)

\* C5: the interval computed for month M runs from midnight of the 1st in
\* the property's zone to midnight of the next 1st in that zone, so the
\* reservation checked in at 23:59 local time on the last day of M, in a
\* zone behind UTC, lies inside it.
C5_LocalMonthBoundary ==
    m_out.status = "ok"
        => /\ m_out.start[1] = LocalToUTC(FirstOf(m_in.year, m_in.month), m_in.west)
           /\ m_out.end[1] = LocalToUTC(FirstOfNext(m_in.year, m_in.month), m_in.west)
           /\ Contains(m_out.start[1], m_out.end[1], ProbeCheckIn)

\* What the query text would select with the interval the function computes,
\* were it executed: the probed reservation on a timestamptz column, not on
\* a timestamp column.  The function executes no query.
QueryTextReading ==
    m_out.status = "ok"
        => /\ InBucket(ProbeCheckIn, "timestamptz", m_in.west, m_out.start[1], m_out.end[1])
           /\ ~InBucket(ProbeCheckIn, "timestamp", m_in.west, m_out.start[1], m_out.end[1])
           /\ ~m_out.queried

\* The hundredths nearest to a non-negative number of thousandths, a tie
\* going up
HalfUp(mills) ==
    CHOOSE c \in {mills \div 10, mills \div 10 + 1} :
        10 * c - 5 <= mills /\ mills < 10 * c + 5

\* C6: total_revenue is the aggregate's unrounded total rounded half-up to
\* two fractional digits, and a total that has only two fractional digits
\* comes through unchanged.
C6_RoundHalfUpOnce ==
    a_resp # <<>>
        => LET total == a_out.value[1].total
               shown == a_resp[1].total_revenue
           IN  /\ shown = HalfUp(total)
               /\ (total % 10 = 0 => 10 * shown = total)
               /\ HalfUp(10 * shown) = shown

\* C6 witness: a live total with a 5 in its third fractional digit was
\* formatted.
C6_Witness ==
    /\ a_resp # <<>>
    /\ a_out.path = "row"
    /\ a_out.value[1].total % 10 = 5
    /\ a_resp[1].total_revenue = a_out.value[1].total \div 10 + 1

ContextTenant(u) ==
    IF u.tenant_id = NULL \/ u.tenant_id = <<"">> THEN "default_tenant"
    ELSE u.tenant_id[1]

\* C7: the tenant_id the aggregation is scoped by is the one the
\* authenticated context carries, and "default_tenant" only when the
\* context carries none.
C7_TenantFromContext ==
    \A r \in Requests : pc[r] # "idle" => tenant[r] = ContextTenant(user[r])

\* C8: when the amount a successful query returns cannot be parsed as a
\* decimal, calculate_total_revenue fails and returns no aggregate.
C8_UnparseableAmountRejected ==
    LET idx == Matching(a_in.property_id, a_in.tenant_id)
    IN  (/\ a_out.stage = "returned"
         /\ a_out.answer = "ok"
         /\ idx # {}
         /\ \A i \in idx : store[i].total_amount = NULL)
            => a_out.value = <<>>

IntervalOK ==
    /\ m_out.status = "ok"
    /\ m_out.start = <<FirstOf(m_in.year, m_in.month)>>
    /\ m_out.end = <<FirstOfNext(m_in.year, m_in.month)>>
    /\ DtLess(m_out.start[1], m_out.end[1])

Rejected ==
    /\ m_out.status = "ValueError"
    /\ m_out.start = <<>>
    /\ m_out.end = <<>>
    /\ ~m_out.queried

\* C9 as stated: for every year and every month in 1..12 the interval runs
\* from the 1st of the month to the 1st of the following month, start < end;
\* a month outside 1..12 is rejected, without interval and without query.
C9_EveryYear ==
    m_out.status # "none"
        => IF m_in.month \in 1..12 THEN IntervalOK ELSE Rejected

\* C9 amended: the same for every year in 1..9999 and month in 1..12 other
\* than December of year 9999.  That month (the 1st of the following month
\* is in year 10000), a year outside 1..9999 and a month outside 1..12 are
\* rejected: the datetime constructor raises, no interval is produced and
\* no query is issued.
C9_RepresentableYears ==
    m_out.status # "none"
        => IF /\ m_in.year \in MINYEAR..MAXYEAR
              /\ m_in.month \in 1..12
              /\ ~(m_in.year = MAXYEAR /\ m_in.month = 12)
           THEN IntervalOK
           ELSE Rejected

\* C9 witness: a December whose interval ends on the 1st of January of the
\* next year.
C9_Witness ==
    /\ m_out.status = "ok"
    /\ m_in.month = 12
    /\ m_out.end[1].year = m_in.year + 1
    /\ m_out.end[1].month = 1

\* C10: a request that waits for the store eventually completes with a
\* response.
C10_EveryRequestCompletes ==
    \A r \in Requests : (pc[r] = "query") ~> (pc[r] = "done")

====
